---- MODULE Spec2Model ----
(***************************************************************************)
(* A model of mhkit/wave/graphics.py: the four plotters plot_spectrum,     *)
(* plot_elevation_timeseries, plot_matrix and plot_chakrabarti, the        *)
(* pyplot state they act on (the figures, their axes, the current figure)  *)
(* and the caller's data objects they are handed.                          *)
(***************************************************************************)
EXTENDS Integers, Sequences, FiniteSets, TLC

VARIABLES figs, cur, heap, call, before, result

vars == <<figs, cur, heap, call, before, result>>

-----------------------------------------------------------------------------
(* Bounds of the model.                                                    *)

\* figures the caller creates before a call
MaxFigs == 2
\* samples in a plot_chakrabarti collection
MaxLen == 2
\* rows and columns of a plot_matrix table
MaxDim == 2
\* non-finite cells of a plot_matrix table
MaxHoles == 1
\* rows of a spectrum or elevation table
MaxRows == 2
\* columns of a spectrum or elevation table
MaxCols == 2

\* the values of the docstring example of plot_chakrabarti
ExampleD == 5
ExampleH == 8
ExampleLambda == 200
\* the span of the D samples of the docstring example, linspace(5,15,5)
ExampleDSpan == 10

-----------------------------------------------------------------------------
(* Numbers.  A float is n/d * pi^p, kept in lowest terms with d > 0;       *)
(* d = 0 holds the non-finite floats: nan (n = 0), +inf (n = 1) and        *)
(* -inf (n = -1).                                                          *)

Abs(i) == IF i < 0 THEN -i ELSE i

RECURSIVE GCD(_, _)
GCD(a, b) == IF b = 0 THEN a ELSE GCD(b, a % b)

Sign(i) == IF i > 0 THEN 1 ELSE IF i < 0 THEN -1 ELSE 0

NaN == [n |-> 0, d |-> 0, p |-> 0]
PosInf == [n |-> 1, d |-> 0, p |-> 0]
NegInf == [n |-> -1, d |-> 0, p |-> 0]

Norm(n, d, p) ==
    IF d = 0 THEN [n |-> Sign(n), d |-> 0, p |-> 0]
    ELSE IF n = 0 THEN [n |-> 0, d |-> 1, p |-> 0]
    ELSE LET g == GCD(Abs(n), Abs(d))
             s == Sign(d)
         IN [n |-> s * (n \div g), d |-> s * (d \div g), p |-> p]

Rat(n, d) == Norm(n, d, 0)
Whole(i) == Rat(i, 1)
Pi == [n |-> 1, d |-> 1, p |-> 1]

IsNaN(x) == x.d = 0 /\ x.n = 0
IsFinite(x) == x.d # 0

\* IEEE product and quotient of two floats
Mul(a, b) ==
    IF IsNaN(a) \/ IsNaN(b) THEN NaN
    ELSE IF a.d = 0 \/ b.d = 0
         THEN Norm(Sign(a.n) * Sign(b.n), 0, 0)
         ELSE Norm(a.n * b.n, a.d * b.d, a.p + b.p)

Div(a, b) ==
    IF IsNaN(a) \/ IsNaN(b) THEN NaN
    ELSE IF a.d = 0 THEN (IF b.d = 0 THEN NaN
                          ELSE Norm(a.n * (IF b.n < 0 THEN -1 ELSE 1), 0, 0))
    ELSE IF b.d = 0 THEN Whole(0)
    ELSE IF b.n = 0 THEN Norm(Sign(a.n), 0, 0)
    ELSE Norm(a.n * b.d, a.d * b.n, a.p - b.p)

-----------------------------------------------------------------------------
(* The drawing backend: figures, each with at most one main axes, and      *)
(* pyplot's current figure (0: none).                                      *)

NoAxes ==
    [exists |-> FALSE, images |-> 0, lines |-> <<>>, texts |-> <<>>,
     legend |-> FALSE, xscale |-> "linear", yscale |-> "linear",
     xlabel |-> "", ylabel |-> "", xlim |-> <<>>, ylim |-> <<>>,
     xticks |-> <<>>, yticks |-> <<>>]

NewAxes == [NoAxes EXCEPT !.exists = TRUE]

NewFigure(managed, withAxes) ==
    [managed |-> managed, ax |-> IF withAxes THEN NewAxes ELSE NoAxes,
     cbars |-> 0, cbarlabels |-> <<>>, layouts |-> 0]

World(f, c) == [figs |-> f, cur |-> c]

\* plt.figure(): a new figure, registered with pyplot, becomes current
PltFigure(w) ==
    World(Append(w.figs, NewFigure(TRUE, FALSE)), Len(w.figs) + 1)

\* plt.gcf(): the current figure, created when there is none
Gcf(w) == IF w.cur = 0 THEN PltFigure(w) ELSE w

\* plt.gca(): the current figure's axes, created when it has none
Gca(w) ==
    LET g == Gcf(w)
    IN IF g.figs[g.cur].ax.exists THEN g
       ELSE World([g.figs EXCEPT ![g.cur].ax = NewAxes], g.cur)

\* an update of the axes with handle a (the id of its figure)
OnAxes(w, a, newax) == World([w.figs EXCEPT ![a].ax = newax], w.cur)

AxPlot(w, a, line) ==
    OnAxes(w, a, [w.figs[a].ax EXCEPT !.lines = Append(@, line)])

AxText(w, a, txt) ==
    OnAxes(w, a, [w.figs[a].ax EXCEPT !.texts = Append(@, txt)])

\* plt.tight_layout(): lays out the current figure
TightLayout(w) ==
    LET g == Gcf(w)
    IN World([g.figs EXCEPT ![g.cur].layouts = @ + 1], g.cur)

-----------------------------------------------------------------------------
(* Outcomes of a call.                                                     *)

Ok(ret) == [status |-> "ok", msg |-> "", ret |-> ret]
Raised(exc, msg) == [status |-> exc, msg |-> msg, ret |-> 0]
NoTable == [built |-> FALSE, index |-> <<>>, rows |-> <<>>]

\* what a plotter leaves behind: the backend, the heap, the outcome, the
\* internal table of triples (plot_chakrabarti)
Outcome(w, h, res, table) == [w |-> w, heap |-> h, res |-> res, table |-> table]

-----------------------------------------------------------------------------
(* Tables (pandas DataFrame): index, columns and vals (one row per index   *)
(* entry, one value per column).                                           *)

Frame(index, columns, vals) ==
    [kind |-> "DataFrame", index |-> index, columns |-> columns, vals |-> vals]

IsDataFrame(o) == o.kind = "DataFrame"

\* objects that are no DataFrame
NotATable == {[kind |-> "str"], [kind |-> "int"]}

\* a new object on the heap; its id is the new length
Alloc(h, o) == Append(h, o)

-----------------------------------------------------------------------------
(* _xy_plot of mhkit.river.graphics: a new figure and axes when ax is      *)
(* None, then one line per column of y against x, the axis labels, and     *)
(* the axes is returned.                                                   *)

ColumnLine(x, y, c, fmt) ==
    [fmt |-> fmt, label |-> "",
     x |-> [k \in 1..Len(x) |-> x[k]],
     y |-> [k \in 1..Len(y.vals) |-> y.vals[k][c]]]

RECURSIVE PlotColumns(_, _, _, _, _, _)
PlotColumns(w, a, x, y, fmt, c) ==
    IF c > Len(y.columns) THEN w
    ELSE PlotColumns(AxPlot(w, a, ColumnLine(x, y, c, fmt)), a, x, y, fmt, c + 1)

xy_plot(w, h, x, y, fmt, xlabel, ylabel, ax) ==
    LET w1 == IF ax = 0 THEN Gca(PltFigure(w)) ELSE w
        a == IF ax = 0 THEN w1.cur ELSE ax
        w2 == PlotColumns(w1, a, x, y, fmt, 1)
        w3 == OnAxes(w2, a, [w2.figs[a].ax EXCEPT !.xlabel = xlabel,
                                                  !.ylabel = ylabel])
    IN Outcome(w3, h, Ok(a), NoTable)

-----------------------------------------------------------------------------
(* plot_spectrum(S, ax) and plot_elevation_timeseries(eta, ax).  The       *)
(* table is object 1 of the heap.                                          *)

TwoPi == Mul(Whole(2), Pi)

\* f*2*np.pi : a new Index
AngularFrequency(f) == [k \in 1..Len(f) |-> Mul(Mul(f[k], Whole(2)), Pi)]

\* a slip: S*(2*np.pi), the density scaled the way the index is
PerRadianMultiplied(S) ==
    Frame(S.index, S.columns,
          [k \in 1..Len(S.vals) |->
              [c \in 1..Len(S.columns) |->
                  Mul(S.vals[k][c], Mul(Whole(2), Pi))]])

\* S/(2*np.pi) : a new DataFrame with the index and columns of S
PerRadian(S) ==
    Frame(S.index, S.columns,
          [k \in 1..Len(S.vals) |->
              [c \in 1..Len(S.columns) |-> Div(S.vals[k][c], TwoPi)]])

\* the heap after S/(2*np.pi): the quotient is a new object
ScaleDensity(h, id) == Alloc(h, PerRadian(h[id]))

plot_spectrum(w, h, ax) ==
    LET S == h[1]
    IN IF ~IsDataFrame(S)
       THEN Outcome(w, h, Raised("AssertionError", "S must be of type pd.DataFrame"),
                    NoTable)
       ELSE LET f == S.index
                h1 == ScaleDensity(h, 1)
            IN xy_plot(w, h1, AngularFrequency(f), h1[Len(h1)], "-",
                       "omega [rad/s]", "Spectral density [m$^2$s/rad]", ax)

\* a slip: the figure is made before the type of eta is checked
plot_elevation_timeseries_late_check(w, h, ax) ==
    LET eta == h[1]
        w1 == IF ax = 0 THEN Gca(PltFigure(w)) ELSE w
    IN IF ~IsDataFrame(eta)
       THEN Outcome(w1, h, Raised("AssertionError", "eta must be of type pd.DataFrame"),
                    NoTable)
       ELSE xy_plot(w, h, eta.index, eta, "-", "Time", "$\\eta$ [m]", ax)

plot_elevation_timeseries(w, h, ax) ==
    LET eta == h[1]
    IN IF ~IsDataFrame(eta)
       THEN Outcome(w, h, Raised("AssertionError", "eta must be of type pd.DataFrame"),
                    NoTable)
       ELSE xy_plot(w, h, eta.index, eta, "-", "Time", "$\\eta$ [m]", ax)

-----------------------------------------------------------------------------
(* plot_matrix(M, xlabel, ylabel, zlabel, show_values, ax).  M is object 1 *)
(* of the heap.  kw holds the keyword arguments.                           *)

\* plt.colorbar(im) for an image on axes a: pyplot fetches the current
\* figure (creating one when there is none).  An older matplotlib takes the
\* room for the colorbar from the current axes and adds it to the current
\* figure (legacy); a newer one adds it to the figure of the image's axes.
PltColorbar(w, a, zlabel, legacy) ==
    LET g == IF legacy THEN Gca(w) ELSE Gcf(w)
        f == IF legacy THEN g.cur ELSE a
    IN World([g.figs EXCEPT ![f].cbars = @ + 1,
                            ![f].cbarlabels =
                                IF zlabel # "" THEN Append(@, zlabel) ELSE @],
             g.cur)

\* a string: a literal text (str), or a number printed with two decimals
\* (its hundredths)
Str(t) == [hundredths |-> 0, str |-> t]

\* format(v, '.2f'): the hundredths of v, or the name of a non-finite float
Format2f(v) ==
    IF v.d = 0
    THEN [hundredths |-> 0,
          str |-> IF v.n = 0 THEN "nan" ELSE IF v.n > 0 THEN "inf" ELSE "-inf"]
    ELSE [hundredths |-> Sign(v.n) * ((2 * 100 * Abs(v.n) + v.d) \div (2 * v.d)),
          str |-> ""]

\* M.loc[index, col]: every cell whose row and column labels match
Loc(M, index, col) ==
    { <<r, c>> \in (1..Len(M.index)) \X (1..Len(M.columns)) :
          M.index[r] = index /\ M.columns[c] = col }

\* the cells in the order of the two loops: columns outside, rows inside
CellAt(M, k) == <<((k - 1) % Len(M.index)) + 1, ((k - 1) \div Len(M.index)) + 1>>

\* a slip: ~np.isfinite in the place of np.isnan
NpIsNotFinite(v) == ~IsFinite(v)

\* np.isnan of a scalar cell
NpIsNan(v) == IsNaN(v)

\* the loop over the cells from cell k on: [w, res]
RECURSIVE ShowValues(_, _, _, _)
ShowValues(w, a, M, k) ==
    IF k > Len(M.index) * Len(M.columns) THEN [w |-> w, res |-> Ok(a)]
    ELSE LET j == CellAt(M, k)[1]
             i == CellAt(M, k)[2]
             hit == Loc(M, M.index[j], M.columns[i])
         IN IF Cardinality(hit) > 1
            THEN [w |-> w,
                  res |-> Raised("ValueError", "The truth value of a Series is ambiguous")]
            ELSE LET v == M.vals[j][i]
                 IN IF ~NpIsNan(v)
                    THEN ShowValues(AxText(w, a, [x |-> Whole(i - 1), y |-> Whole(j - 1),
                                                   s |-> Format2f(v)]),
                                    a, M, k + 1)
                    ELSE ShowValues(w, a, M, k + 1)

plot_matrix(w, h, kw, ax, legacy) ==
    LET M == h[1]
    IN IF ~IsDataFrame(M)
       THEN Outcome(w, h, Raised("AssertionError", "M must be of type pd.DataFrame"),
                    NoTable)
       ELSE LET w1 == IF ax = 0 THEN Gca(PltFigure(w)) ELSE w
                a == IF ax = 0 THEN w1.cur ELSE ax
                w2 == OnAxes(w1, a, [w1.figs[a].ax EXCEPT !.images = @ + 1])
                w3 == PltColorbar(w2, a, kw.zlabel, legacy)
                w4 == OnAxes(w3, a, [w3.figs[a].ax EXCEPT !.xlabel = kw.xlabel,
                                                          !.ylabel = kw.ylabel])
                sv == IF kw.show_values THEN ShowValues(w4, a, M, 1)
                      ELSE [w |-> w4, res |-> Ok(a)]
                w5 == OnAxes(sv.w, a, [sv.w.figs[a].ax EXCEPT !.xticks = M.columns,
                                                              !.yticks = M.index])
            IN IF sv.res.status = "ok"
               THEN Outcome(w5, h, Ok(a), NoTable)
               ELSE Outcome(sv.w, h, sv.res, NoTable)

-----------------------------------------------------------------------------
(* plot_chakrabarti(H, lambda_w, D, ax).  H, lambda_w and D are objects    *)
(* 1, 2 and 3 of the heap: a Python number (float), a numpy integer        *)
(* (int64), a numpy array (ndarray: shape and row-major data) or a pandas  *)
(* Series (index labels, data, name).                                      *)

Value(kind, shape, data, index, name) ==
    [kind |-> kind, shape |-> shape, data |-> data, index |-> index, name |-> name]

IsArray(o) == o.kind = "ndarray"
IsSeries(o) == o.kind = "Series"

\* isinstance(o, (np.ndarray, float, int, np.int64, pd.Series))
IsRealNumeric(o) == o.kind \in {"ndarray", "float", "int64", "Series"}

\* a Python float or int has no squeeze(); numpy and pandas objects do
HasSqueeze(o) == o.kind \in {"ndarray", "int64", "Series"}

\* o.squeeze().shape: the dimensions that are not 1
SqueezedShape(o) == SelectSeq(o.shape, LAMBDA d : d # 1)

RECURSIVE Size(_)
Size(shape) == IF shape = <<>> THEN 1 ELSE Head(shape) * Size(Tail(shape))

\* the test of line 183
AnyCollection(H, lambda_w, D) ==
    \/ IsArray(H) \/ IsSeries(H)
    \/ IsArray(lambda_w) \/ IsSeries(H)
    \/ IsArray(D) \/ IsSeries(H)

\* np.array([o]) of a scalar or of a Series
NpArrayOf(o) ==
    Value("ndarray", <<1>> \o o.shape, o.data, <<>>, "")

\* pd.DataFrame(H.reshape(len(H), 1), columns=['H'])
FrameOfArray(H) ==
    Frame([k \in 1..Head(H.shape) |-> k - 1], <<"H">>,
          [k \in 1..Head(H.shape) |-> <<H.data[k]>>])

\* pd.DataFrame(H) of a Series: its index, one column under its name
FrameOfSeries(H) ==
    Frame(H.index, <<H.name>>, [k \in 1..Len(H.index) |-> <<H.data[k]>>])

\* the value of Series o at label r, nan when o has no such label
AtLabel(o, r) ==
    IF \E k \in 1..Len(o.index) : o.index[k] = r
    THEN o.data[CHOOSE k \in 1..Len(o.index) : o.index[k] = r]
    ELSE NaN

\* whether pandas takes a two-dimensional array of shape <<a, b>> as one
\* column of a frame of n rows: an older pandas wants it to fit the block
\* manager (legacy), a newer one wants a single column
Fits2D(shape, n, legacy) ==
    /\ shape[1] = n
    /\ IF legacy THEN shape[2] = n ELSE shape[2] = 1

\* the failure of mvals[col] = o, "" when it succeeds
SetItemError(frame, o, legacy) ==
    LET n == Len(frame.index)
    IN IF ~IsArray(o) THEN ""
       ELSE IF Len(o.shape) = 0 THEN ""
       ELSE IF o.shape[1] # n THEN "ValueError"
       ELSE IF Len(o.shape) = 1 THEN ""
       ELSE IF Fits2D(o.shape, n, legacy) THEN ""
       ELSE IF legacy THEN "AssertionError" ELSE "ValueError"

\* the new column: a scalar for every row, an array by position, a Series
\* by index label
NewColumn(frame, o) ==
    [k \in 1..Len(frame.index) |->
        IF IsSeries(o) THEN AtLabel(o, frame.index[k])
        ELSE IF o.shape = <<>> THEN o.data[1]
        ELSE o.data[k]]

\* the frame after mvals[col] = o
WithColumn(frame, col, o) ==
    LET column == NewColumn(frame, o)
    IN Frame(frame.index, Append(frame.columns, col),
             [k \in 1..Len(frame.index) |-> Append(frame.vals[k], column[k])])

\* mvals[col] = heap[v] on the frame heap[m]: the frame is changed in place
SetItem(h, m, col, v) == [h EXCEPT ![m] = WithColumn(h[m], col, h[v])]

\* lines 193-196, 197-200 and 206-208: the frame of H, then the columns
\* lambda_w and D.  hv, lv, dv are the heap ids of the three values.
Prepared(res, h, mvals) == [res |-> res, heap |-> h, mvals |-> mvals]

\* a slip: the columns are added to the caller's H itself, made a frame in
\* place, and not to a new frame
BuildTableInPlace(h, first, hv, lv, dv, legacy) ==
    LET h1 == [h EXCEPT ![hv] = first]
        m == hv
        e1 == SetItemError(h1[m], h1[lv], legacy)
        h2 == SetItem(h1, m, "lambda_w", lv)
        e2 == SetItemError(h2[m], h2[dv], legacy)
        h3 == SetItem(h2, m, "D", dv)
    IN IF e1 # "" THEN Prepared(Raised(e1, "lambda_w does not fit the frame"), h1, 0)
       ELSE IF e2 # "" THEN Prepared(Raised(e2, "D does not fit the frame"), h2, 0)
       ELSE Prepared(Ok(0), h3, m)

BuildTable(h, first, hv, lv, dv, legacy) ==
    LET h1 == Alloc(h, first)
        m == Len(h1)
        e1 == SetItemError(h1[m], h1[lv], legacy)
        h2 == SetItem(h1, m, "lambda_w", lv)
        e2 == SetItemError(h2[m], h2[dv], legacy)
        h3 == SetItem(h2, m, "D", dv)
    IN IF e1 # "" THEN Prepared(Raised(e1, "lambda_w does not fit the frame"), h1, 0)
       ELSE IF e2 # "" THEN Prepared(Raised(e2, "D does not fit the frame"), h2, 0)
       ELSE Prepared(Ok(0), h3, m)

\* H.reshape(len(H), 1) and the frame built on it
TableOfArray(h, hv, lv, dv, legacy) ==
    LET H == h[hv]
    IN IF H.shape = <<>>
       THEN Prepared(Raised("TypeError", "len() of unsized object"), h, 0)
       ELSE IF Size(H.shape) # Head(H.shape)
       THEN Prepared(Raised("ValueError", "cannot reshape array"), h, 0)
       ELSE BuildTable(h, FrameOfArray(H), hv, lv, dv, legacy)

\* lines 179-208: the validation and the table of triples; mvals is the
\* heap id of the table, 0 when the name mvals was never bound
Prepare(h, legacy) ==
    LET H == h[1]
        lambda_w == h[2]
        D == h[3]
    IN IF ~IsRealNumeric(H)
       THEN Prepared(Raised("AssertionError", "H must be a real numeric type"), h, 0)
       ELSE IF ~IsRealNumeric(lambda_w)
       THEN Prepared(Raised("AssertionError", "lambda_w must be a real numeric type"), h, 0)
       ELSE IF ~IsRealNumeric(D)
       THEN Prepared(Raised("AssertionError", "D must be a real numeric type"), h, 0)
       ELSE IF AnyCollection(H, lambda_w, D)
       THEN IF ~HasSqueeze(H) \/ ~HasSqueeze(lambda_w) \/ ~HasSqueeze(D)
            THEN Prepared(Raised("AttributeError", "object has no attribute 'squeeze'"),
                          h, 0)
            ELSE IF ~(SqueezedShape(H) = SqueezedShape(lambda_w)
                      /\ SqueezedShape(H) = SqueezedShape(D))
            THEN Prepared(Raised("AssertionError", "H, lambda_w, and D must be same shape"),
                          h, 0)
            ELSE IF IsArray(H) THEN TableOfArray(h, 1, 2, 3, legacy)
            ELSE IF IsSeries(H) THEN BuildTable(h, FrameOfSeries(H), 1, 2, 3, legacy)
            ELSE Prepared(Ok(0), h, 0)
       ELSE LET h1 == Alloc(Alloc(Alloc(h, NpArrayOf(H)), NpArrayOf(lambda_w)),
                            NpArrayOf(D))
            IN TableOfArray(h1, 4, 5, 6, legacy)

\* the thresholds of the regimes (lines 219, 227, 235, 246) and the
\* breaking limit H/lambda_w = 0.14 (line 254)
ldv == Whole(20)
sdv == Rat(3, 2)
ndv == Rat(1, 4)
drv == Rat(1, 2)
BreakingSteepness == Rat(14, 100)
xMin == Rat(1, 100)
xMax == Whole(10)

Line(fmt, label, x, y) == [fmt |-> fmt, label |-> label, x |-> x, y |-> y]
Text(x, y, s) == [x |-> x, y |-> y, s |-> s]

\* a horizontal boundary at height v, drawn from the left edge to the
\* breaking limit
DragBound(v) ==
    Line("k--", "", <<xMin, Div(Mul(BreakingSteepness, Pi), v)>>, <<v, v>>)

\* lines 214-257: the log axes, the regime boundaries and their names
DrawRegimes(w, a) ==
    LET old == w.figs[a].ax
        new == [old EXCEPT
                  !.xscale = "log",
                  !.yscale = "log",
                  !.lines = @ \o
                      << DragBound(ldv), DragBound(sdv), DragBound(ndv),
                         Line("k--", "", <<Rat(1, 2), Rat(1, 2)>>,
                              <<xMin, Div(Mul(BreakingSteepness, Pi), drv)>>),
                         Line("k-", "", <<xMin, xMax>>,
                              <<Div(Mul(BreakingSteepness, Pi), xMin),
                                Div(Mul(BreakingSteepness, Pi), xMax)>>) >>,
                  !.texts = @ \o
                      << Text(Rat(125, 10000), Whole(30), Str("drag")),
                         Text(Rat(2, 100), Whole(7), Str("inertia \n& drag")),
                         Text(Rat(8, 100), Rat(7, 10), Str("large\ninertia")),
                         Text(Rat(8, 100), Rat(6, 100), Str("all\ninertia")),
                         Text(Whole(2), Rat(6, 100), Str("diffraction")),
                         Text(Whole(1), Whole(7), Str("wave\nbreaking\n$H/\\lambda_w > 0.14$")) >>]
    IN OnAxes(w, a, new)

\* the position of column col in the frame, 0 when it has no such column
ColumnOf(frame, col) ==
    IF \E c \in 1..Len(frame.columns) : frame.columns[c] = col
    THEN CHOOSE c \in 1..Len(frame.columns) : frame.columns[c] = col
    ELSE 0

\* '%.2g': two significant digits (of a whole number; nan stays nan)
RECURSIVE TwoDigits(_)
TwoDigits(i) == IF i < 100 THEN i ELSE 10 * TwoDigits((i + 5) \div 10)

Fmt2g(v) == IF v.d = 1 /\ v.n >= 0 THEN Whole(TwoDigits(v.n)) ELSE v

\* lines 260-263: the marker of one row
Marker(H, lambda_w, D) ==
    LET xx == Div(H, D)
        yy == Div(Mul(Pi, D), lambda_w)
    IN Line("o", <<Fmt2g(H), Fmt2g(lambda_w), Fmt2g(D)>>, <<xx>>, <<yy>>)

\* lines 259-263: the loop over the rows from row k on
RECURSIVE PlotSamples(_, _, _, _)
PlotSamples(w, a, mvals, k) ==
    IF k > Len(mvals.index) THEN [w |-> w, res |-> Ok(0)]
    ELSE IF ColumnOf(mvals, "H") = 0
    THEN [w |-> w, res |-> Raised("KeyError", "H")]
    ELSE LET row == mvals.vals[k]
             mk == Marker(row[ColumnOf(mvals, "H")], row[ColumnOf(mvals, "lambda_w")],
                          row[ColumnOf(mvals, "D")])
         IN PlotSamples(AxPlot(w, a, mk), a, mvals, k + 1)

\* line 266: index is the label of the last row
LegendWanted(mvals) == mvals.index[Len(mvals.index)] > 0

\* lines 266-275
Finish(w, a, mvals) ==
    LET old == w.figs[a].ax
        new == [old EXCEPT
                  !.legend = IF LegendWanted(mvals) THEN TRUE ELSE @,
                  !.xlim = <<Rat(1, 100), Whole(10)>>,
                  !.ylim = <<Rat(1, 100), Whole(50)>>,
                  !.xlabel = "Diffraction parameter, $\\frac{\\pi D}{\\lambda_w}$",
                  !.ylabel = "KC parameter, $\\frac{H}{D}$"]
    IN TightLayout(OnAxes(w, a, new))

\* what the function returns when it runs to its end
Returned(a) == Ok(0)

TableOf(mvals) == [built |-> TRUE, index |-> mvals.index, rows |-> mvals.vals]

plot_chakrabarti(w, h, ax, legacy) ==
    LET p == Prepare(h, legacy)
    IN IF p.res.status # "ok" THEN Outcome(w, p.heap, p.res, NoTable)
       ELSE LET w1 == IF ax = 0 THEN Gca(PltFigure(w)) ELSE w
                a == IF ax = 0 THEN w1.cur ELSE ax
                w2 == DrawRegimes(w1, a)
            IN IF p.mvals = 0
               THEN Outcome(w2, p.heap,
                            Raised("UnboundLocalError", "mvals"), NoTable)
               ELSE LET mvals == p.heap[p.mvals]
                        drawn == PlotSamples(w2, a, mvals, 1)
                    IN IF drawn.res.status # "ok"
                       THEN Outcome(drawn.w, p.heap, drawn.res, TableOf(mvals))
                       ELSE IF Len(mvals.index) = 0
                       THEN Outcome(drawn.w, p.heap,
                                    Raised("UnboundLocalError", "index"), TableOf(mvals))
                       ELSE Outcome(Finish(drawn.w, a, mvals), p.heap, Returned(a),
                                    TableOf(mvals))

-----------------------------------------------------------------------------
(* The caller: it creates figures, makes one call, looks at what the call   *)
(* left, and closes everything before the next call.                       *)

\* spectrum and elevation tables: a strictly increasing index; the values
\* of a column grow with the row, at the rate drawn for the column
DensVals == {1, 4}

TablesOf(N, C) ==
    { Frame([k \in 1..N |-> Whole(start + k - 1)], [c \in 1..C |-> c],
            [k \in 1..N |-> [c \in 1..C |-> Whole(rate[c] * k)]]) :
        start \in {0, 1}, rate \in [1..C -> DensVals] }

Tables == UNION { TablesOf(N, C) : N \in 0..MaxRows, C \in 1..MaxCols }

\* performance matrices: finite cells but for at most MaxHoles cells that
\* are nan, +inf or -inf, under distinct row labels; and the all-finite
\* matrix under row labels that are all the same
Holes(R, C) ==
    { hs \in SUBSET ((1..R) \X (1..C)) : Cardinality(hs) <= MaxHoles }

NonFinite == {NaN, PosInf, NegInf}

MatrixWith(R, C, idx, hs, fill) ==
    Frame(idx, [c \in 1..C |-> c],
          [r \in 1..R |-> [c \in 1..C |->
              IF <<r, c>> \in hs THEN fill[<<r, c>>] ELSE Rat(r + c, 2)]])

MatricesOf(R, C) ==
    UNION { { MatrixWith(R, C, [k \in 1..R |-> k], hs, fill) :
                fill \in [hs -> NonFinite] } : hs \in Holes(R, C) }
        \cup { MatrixWith(R, C, [k \in 1..R |-> 1], {}, <<>>) }

Matrices == UNION { MatricesOf(R, C) : R \in 1..MaxDim, C \in 1..MaxDim }

MatrixKw ==
    { [xlabel |-> "Te", ylabel |-> "Hm0", zlabel |-> z, show_values |-> sv] :
        z \in {"", "CW"}, sv \in BOOLEAN }

\* the arguments of plot_chakrabarti: the k-th sample is base + step*(k-1)
Samples(base, step, n) == [k \in 1..n |-> Whole(base + step * (k - 1))]

Scalars(base) ==
    { Value(kind, <<>>, <<Whole(base)>>, <<>>, "") : kind \in {"float", "int64"} }

ArrayShapes ==
    { <<n>> : n \in 0..MaxLen } \cup { <<1, n>> : n \in 1..MaxLen }
        \cup { <<n, 1>> : n \in 1..MaxLen }

Arrays(base, step) ==
    { Value("ndarray", shape, Samples(base, step, Size(shape)), <<>>, "") :
        shape \in ArrayShapes }

\* the index labels of a Series of n samples: 0..n-1, or n down to 1
IndexLabels(n) == { [k \in 1..n |-> k - 1], [k \in 1..n |-> n - k + 1] }

SeriesOf(base, step, names) ==
    UNION { { Value("Series", <<n>>, Samples(base, step, n), index, name) :
                index \in IndexLabels(n), name \in names } : n \in 0..MaxLen }

NotNumeric == { Value("str", <<>>, <<>>, <<>>, "") }

HArgs ==
    Scalars(ExampleH) \cup Arrays(ExampleH, 0) \cup SeriesOf(ExampleH, 0, {"H", ""})
        \cup NotNumeric

LambdaArgs ==
    Scalars(ExampleLambda) \cup Arrays(ExampleLambda, 0)
        \cup SeriesOf(ExampleLambda, 0, {"lambda_w"}) \cup NotNumeric

DArgs ==
    Scalars(ExampleD) \cup Arrays(ExampleD, ExampleDSpan)
        \cup SeriesOf(ExampleD, ExampleDSpan, {"D"}) \cup NotNumeric

\* the surfaces a caller can pass: None (0) or the axes of a figure
Surfaces == {0} \cup { i \in 1..Len(figs) : figs[i].ax.exists }

NoCall == [op |-> "none", args |-> <<>>, ax |-> 0, kw |-> <<>>]

Init ==
    /\ figs = <<>>
    /\ cur = 0
    /\ heap = <<>>
    /\ call = NoCall
    /\ before = World(<<>>, 0)
    /\ result = [res |-> [status |-> "none", msg |-> "", ret |-> 0],
                 table |-> NoTable]

\* the effect of a call on the state
Apply(op, args, ax, kw, out) ==
    /\ figs' = out.w.figs
    /\ cur' = out.w.cur
    /\ heap' = SubSeq(out.heap, 1, Len(args))
    /\ call' = [op |-> op, args |-> args, ax |-> ax, kw |-> kw]
    /\ before' = World(figs, cur)
    /\ result' = [res |-> out.res, table |-> out.table]

\* fig, ax = plt.subplots()
CallerSubplots ==
    /\ call.op = "none"
    /\ Len(figs) < MaxFigs
    /\ figs' = Append(figs, NewFigure(TRUE, TRUE))
    /\ cur' = Len(figs) + 1
    /\ UNCHANGED <<heap, call, before, result>>

\* ax = matplotlib.figure.Figure().add_subplot(): a figure pyplot does not know
CallerFigureObject ==
    /\ call.op = "none"
    /\ Len(figs) < MaxFigs
    /\ figs' = Append(figs, NewFigure(FALSE, TRUE))
    /\ UNCHANGED <<cur, heap, call, before, result>>

\* plt.close('all'), and the caller drops its figures and data
CloseAll ==
    /\ call.op # "none"
    /\ figs' = <<>>
    /\ cur' = 0
    /\ heap' = <<>>
    /\ call' = NoCall
    /\ before' = World(<<>>, 0)
    /\ result' = [res |-> [status |-> "none", msg |-> "", ret |-> 0],
                  table |-> NoTable]

PlotSpectrum ==
    /\ call.op = "none"
    /\ \E S \in Tables \cup NotATable, ax \in Surfaces :
          Apply("plot_spectrum", <<S>>, ax, <<>>,
                plot_spectrum(World(figs, cur), <<S>>, ax))

PlotElevation ==
    /\ call.op = "none"
    /\ \E eta \in Tables \cup NotATable, ax \in Surfaces :
          Apply("plot_elevation_timeseries", <<eta>>, ax, <<>>,
                plot_elevation_timeseries(World(figs, cur), <<eta>>, ax))

PlotMatrix ==
    /\ call.op = "none"
    /\ \E M \in Matrices \cup NotATable, kw \in MatrixKw, ax \in Surfaces,
          legacy \in BOOLEAN :
          Apply("plot_matrix", <<M>>, ax, kw,
                plot_matrix(World(figs, cur), <<M>>, kw, ax, legacy))

PlotChakrabarti ==
    /\ call.op = "none"
    /\ \E H \in HArgs, lambda_w \in LambdaArgs, D \in DArgs, ax \in Surfaces,
          legacy \in BOOLEAN :
          Apply("plot_chakrabarti", <<H, lambda_w, D>>, ax, <<>>,
                plot_chakrabarti(World(figs, cur), <<H, lambda_w, D>>, ax, legacy))

Next ==
    \/ CallerSubplots
    \/ CallerFigureObject
    \/ CloseAll
    \/ PlotSpectrum
    \/ PlotElevation
    \/ PlotMatrix
    \/ PlotChakrabarti

Spec == Init /\ [][Next]_vars

-----------------------------------------------------------------------------
(* What the properties below speak of.                                     *)

Called(op) == call.op = op
Succeeded == result.res.status = "ok"

\* the surface the call drew on: the supplied one, or the axes of the
\* figure the call created
DrawnOn == IF call.ax = 0 THEN Len(before.figs) + 1 ELSE call.ax

\* that surface before the call
AxesBefore == IF call.ax = 0 THEN NewAxes ELSE before.figs[call.ax].ax

\* the artists the call added to it
NewLines ==
    SubSeq(figs[DrawnOn].ax.lines, Len(AxesBefore.lines) + 1,
           Len(figs[DrawnOn].ax.lines))

NewTexts ==
    SubSeq(figs[DrawnOn].ax.texts, Len(AxesBefore.texts) + 1,
           Len(figs[DrawnOn].ax.texts))

Markers == SelectSeq(NewLines, LAMBDA l : l.fmt = "o")

\* the number of samples of a plot_chakrabarti argument and its k-th sample
IsCollection(o) == o.kind \in {"ndarray", "Series"}
IsNumber(o) == o.kind \in {"float", "int64"}
SampleCount(o) == IF IsCollection(o) THEN Len(o.data) ELSE 1
Sample(o, k) == IF IsCollection(o) THEN o.data[k] ELSE o.data[1]
ShapeOf(o) == SelectSeq(o.shape, LAMBDA d : d # 1)

AllNumeric == \A i \in 1..3 : IsCollection(call.args[i]) \/ IsNumber(call.args[i])

SameShape ==
    /\ ShapeOf(call.args[1]) = ShapeOf(call.args[2])
    /\ ShapeOf(call.args[1]) = ShapeOf(call.args[3])

-----------------------------------------------------------------------------
\* C1: a successful plot_chakrabarti returns the surface it drew on (the
\* supplied one, or the one it created), never None.
C1_ReturnsSurface ==
    (Called("plot_chakrabarti") /\ Succeeded) => result.res.ret = DrawnOn

\* C2: plot_chakrabarti draws a legend if and only if more than one triple
\* was supplied.
C2_LegendIffSeveral ==
    (Called("plot_chakrabarti") /\ Succeeded) =>
        (figs[DrawnOn].ax.legend <=> SampleCount(call.args[1]) > 1)

\* C3: when at least one of H, lambda_w, D is a collection and the three do
\* not have the same squeezed shape, plot_chakrabarti fails with the
\* shape-mismatch error and with nothing else.
C3_ShapeMismatchError ==
    ( /\ Called("plot_chakrabarti")
      /\ AllNumeric
      /\ \E i \in 1..3 : IsCollection(call.args[i])
      /\ ~SameShape )
    => result.res = Raised("AssertionError", "H, lambda_w, and D must be same shape")

\* C4: a call of any of the four plotters with a data argument of a rejected
\* type fails with the type-validation error before any drawing: no surface
\* was created and no figure, supplied or not, has changed.
RejectedType ==
    \/ /\ call.op \in {"plot_spectrum", "plot_elevation_timeseries", "plot_matrix"}
       /\ call.args[1].kind # "DataFrame"
    \/ /\ Called("plot_chakrabarti")
       /\ ~AllNumeric

TypeErrors ==
    { Raised("AssertionError", m) :
        m \in {"S must be of type pd.DataFrame", "eta must be of type pd.DataFrame",
               "M must be of type pd.DataFrame", "H must be a real numeric type",
               "lambda_w must be a real numeric type", "D must be a real numeric type"} }

C4_RejectedTypeFailsBeforeDrawing ==
    RejectedType =>
        /\ result.res \in TypeErrors
        /\ figs = before.figs
        /\ cur = before.cur

C4_Witness ==
    /\ Called("plot_chakrabarti")
    /\ IsCollection(call.args[1])
    /\ call.args[3].kind = "str"
    /\ call.ax # 0
    /\ result.res.status = "AssertionError"

\* C5 as stated: with show_values a completed plot_matrix call draws one
\* annotation per finite cell and none for a nan, +inf or -inf cell; without
\* show_values it draws none.
CellsOf(M) == (1..Len(M.index)) \X (1..Len(M.columns))

AnnotatedAt(rc) ==
    Cardinality({ k \in 1..Len(NewTexts) :
                    /\ NewTexts[k].x = Whole(rc[2] - 1)
                    /\ NewTexts[k].y = Whole(rc[1] - 1) })

IsTwoPiTimes(x, f) ==
    /\ x.d # 0
    /\ x.n * f.d = 2 * f.n * x.d
    /\ x.n # 0 => x.p = f.p + 1

IsOverTwoPi(y, v) ==
    /\ y.d # 0
    /\ 2 * y.n * v.d = v.n * y.d
    /\ y.n # 0 => y.p = v.p - 1

C6_SpectrumPoints ==
    (Called("plot_spectrum") /\ Succeeded) =>
        LET S == call.args[1]
            N == Len(S.index)
        IN /\ Len(NewLines) = Len(S.columns)
           /\ \A c \in 1..Len(S.columns) :
                 /\ Len(NewLines[c].x) = N
                 /\ Len(NewLines[c].y) = N
                 /\ \A k \in 1..N :
                       /\ IsTwoPiTimes(NewLines[c].x[k], S.index[k])
                       /\ IsOverTwoPi(NewLines[c].y[k], S.vals[k][c])

C6_Witness ==
    /\ Called("plot_spectrum")
    /\ Succeeded
    /\ call.ax # 0
    /\ Len(call.args[1].index) = MaxRows
    /\ Len(call.args[1].columns) = MaxCols
    /\ call.args[1].vals[1][1] # call.args[1].vals[MaxRows][1]
    /\ Len(NewLines) = MaxCols

\* C7: no plotter changes its data arguments: after a call, successful or
\* not, the caller's tables, arrays and Series are what they were when
\* passed.
C7_DataUnchanged == call.op # "none" => heap = call.args

C7_Witness ==
    /\ Called("plot_chakrabarti")
    /\ Succeeded
    /\ call.args[1].kind = "Series"
    /\ Len(result.table.rows) = MaxLen
    /\ Len(result.table.rows[1]) = 3
    /\ heap = call.args

\* C8: with a surface supplied to plot_matrix or plot_chakrabarti, every
\* effect lands on that surface or its figure: every other figure is left
\* as it was and no figure is created.
C8_OnlySuppliedSurface ==
    (call.op \in {"plot_matrix", "plot_chakrabarti"} /\ call.ax # 0) =>
        /\ Len(figs) = Len(before.figs)
        /\ \A i \in 1..Len(before.figs) : i # call.ax => figs[i] = before.figs[i]

\* C9: a plot_chakrabarti call whose inputs pass the type and shape
\* validation completes, having built a table with one row per sample, the
\* k-th row holding the k-th H, lambda_w and D, and plots one marker per row.
C9_ValidInputsPlotted ==
    (Called("plot_chakrabarti") /\ AllNumeric /\ SameShape) =>
        LET n == SampleCount(call.args[1])
        IN /\ Succeeded
           /\ result.table.built
           /\ Len(result.table.rows) = n
           /\ \A k \in 1..n :
                 result.table.rows[k] =
                     <<Sample(call.args[1], k), Sample(call.args[2], k),
                       Sample(call.args[3], k)>>
           /\ Len(Markers) = n

\* C10: each marker of plot_chakrabarti sits at the coordinates the axis
\* labels name: horizontally the diffraction parameter pi*D/lambda_w,
\* vertically the KC parameter H/D.
C10_MarkerMatchesLabels ==
    (Called("plot_chakrabarti") /\ Succeeded) =>
        \A k \in 1..Len(Markers) :
            LET row == result.table.rows[k]
            IN /\ Markers[k].x = <<Div(Mul(Pi, row[3]), row[2])>>
               /\ Markers[k].y = <<Div(row[1], row[3])>>

====
